---------------------------- MODULE Spec2Model ----------------------------
(***************************************************************************)
(* A model of the analytic kinematics class AirbotPlayFIK                  *)
(* (discoverse/airbot_play/airbot_play_fik.py) and of the control loop of  *)
(* the task sequencer (discoverse/examples/tasks_mmk2/plate_coffeecup.py). *)
(*                                                                         *)
(* Reals are fixed-point integers: a value v stands for v / One.  Angles   *)
(* are in 1e-4 rad, matrix entries, sines and cosines in 1e-4, lengths in  *)
(* 1e-4 m (the link constants a3, a4, a6 are rounded to that unit).        *)
(* numpy's elementary functions are replaced by integer approximations     *)
(* that are exact on the axes (multiples of pi/2, zero arguments) and      *)
(* accurate to about two units elsewhere.  An integer 0 stands for +0.0;   *)
(* the places where the source multiplies an argument by -1, which turns   *)
(* +0.0 into -0.0, are modelled by the sign parameter of arctan2s and      *)
(* arctan2y.  All intermediate values stay below 2^31.                     *)
(***************************************************************************)
EXTENDS Integers, Sequences, FiniteSets, TLC

(***************************************************************************)
(* Bounds of the model.                                                    *)
(***************************************************************************)
\* add_bias is tried on angles of up to MaxTurns full turns either way
MaxTurns == 2
\* radii tried on either side of each reach boundary
Near == 2
\* half-width, in grid steps, of the grid of wrist-centre positions
Grid == 1
\* joint samples tried per family in the forward/inverse round trip
MaxSample == 3

(***************************************************************************)
(* Fixed-point arithmetic.                                                 *)
(***************************************************************************)
\* the fixed-point representation of 1.0
One == 10^4
\* np.pi in units of 1e-4 rad
PI == 31416
HalfPi == PI \div 2
QuarterPi == PI \div 4
TwoPi == 2 * PI

Abs(x) == IF x < 0 THEN -x ELSE x
Max(x, y) == IF x >= y THEN x ELSE y
Min(x, y) == IF x <= y THEN x ELSE y

\* x / d rounded to the nearest integer (x >= 0, d > 0)
RDivNat(x, d) == IF 2 * (x % d) >= d THEN x \div d + 1 ELSE x \div d

\* x / d rounded to the nearest integer (d > 0): floating-point division
RDiv(x, d) == IF x < 0 THEN 0 - RDivNat(-x, d) ELSE RDivNat(x, d)

\* the product of two fixed-point numbers
FMul(x, y) == RDiv(x * y, One)

RECURSIVE Bisect(_, _, _)
Bisect(n, lo, hi) ==
    IF hi - lo <= 1 THEN lo
    ELSE IF ((lo + hi) \div 2) * ((lo + hi) \div 2) <= n
         THEN Bisect(n, (lo + hi) \div 2, hi)
         ELSE Bisect(n, lo, (lo + hi) \div 2)

NearestRoot(n, r) == IF n - r * r > r THEN r + 1 ELSE r

\* np.sqrt on an integer: the nearest integer to the square root
sqrt(n) == NearestRoot(n, Bisect(n, 0, 46341))

\* sine and cosine of x in [0, pi/4] by their Taylor polynomials, x2 = x * x
SinPoly(x, x2) ==
    FMul(x, One - RDiv(x2 * (One - RDiv(x2 * (One - RDiv(x2, 42)), 20 * One)),
                       6 * One))

CosPoly(x2) ==
    One - RDiv(x2 * (One - RDiv(x2 * (One - RDiv(x2, 30)), 12 * One)), 2 * One)

\* sine of x in [0, pi/2]
SinQuarterTurn(x) ==
    IF x <= QuarterPi THEN SinPoly(x, FMul(x, x))
    ELSE CosPoly(FMul(HalfPi - x, HalfPi - x))

\* sine of x in (-pi, pi]
SinPrincipal(x) ==
    IF x >= 0 THEN SinQuarterTurn(IF x > HalfPi THEN PI - x ELSE x)
    ELSE 0 - SinQuarterTurn(IF -x > HalfPi THEN PI + x ELSE -x)

\* an angle reduced to (-pi, pi]
Principal(a) == IF a % TwoPi > PI THEN (a % TwoPi) - TwoPi ELSE a % TwoPi

\* np.sin, np.cos
sin(a) == SinPrincipal(Principal(a))

cos(a) == SinPrincipal(Principal(a + HalfPi))

\* arctangent of u, |u| <= tan(pi/8), by its Taylor polynomial, u2 = u * u
AtanPoly(u, u2) ==
    FMul(u, One - FMul(u2, 3333 - FMul(u2, 2000 - FMul(u2, 1429 - FMul(u2, 1111)))))

AtanSmall(u) == AtanPoly(u, FMul(u, u))

\* arctangent of t in [0, 1]: atan(t) = pi/4 + atan((t - 1) / (t + 1))
AtanUnit(t) ==
    (IF t <= 4142 THEN 0 ELSE QuarterPi)
    + AtanSmall(IF t <= 4142 THEN t ELSE RDiv((t - One) * One, t + One))

\* arctangent of lo / hi for 0 <= lo <= hi, hi > 0, both scaled down by f
AtanRatio(lo, hi, f) == AtanUnit(RDiv(RDiv(lo, f) * One, RDiv(hi, f)))

\* arctangent of y / x in the first quadrant (y, x >= 0, not both 0)
AtanQuadrant(y, x) ==
    IF y <= x THEN AtanRatio(y, x, x \div (10 * One) + 1)
    ELSE HalfPi - AtanRatio(x, y, y \div (10 * One) + 1)

\* the angle a of the first quadrant moved to the quadrant of (x, y)
ToQuadrant(a, y, x) ==
    IF x > 0 THEN (IF y > 0 THEN a ELSE -a)
    ELSE (IF y > 0 THEN PI - a ELSE a - PI)

\* np.arctan2(y, x), both zeros being +0.0
arctan2(y, x) ==
    IF y = 0 THEN (IF x >= 0 THEN 0 ELSE PI)
    ELSE IF x = 0 THEN (IF y > 0 THEN HalfPi ELSE -HalfPi)
    ELSE ToQuadrant(AtanQuadrant(Abs(y), Abs(x)), y, x)

\* np.arctan2(s * y, s * x) for a sign s: with s = -1 a zero y is -0.0 and
\* a zero x is -0.0, and arctan2(-0.0, x) is -pi for x <= -0.0
arctan2s(s, y, x) ==
    IF s = -1 /\ y = 0 THEN (IF x >= 0 THEN -PI ELSE 0)
    ELSE arctan2(s * y, s * x)

\* np.arctan2(s * y, x) for a sign s and y = np.sqrt(..) >= 0
arctan2y(s, y, x) ==
    IF s = -1 /\ y = 0 THEN (IF x >= 0 THEN 0 ELSE -PI)
    ELSE arctan2(s * y, x)

\* 3x3 matrices are tuples of rows
MatMul(A, B) ==
    [i \in 1..3 |-> [j \in 1..3 |->
        RDiv(A[i][1] * B[1][j] + A[i][2] * B[2][j] + A[i][3] * B[3][j], One)]]

Transpose(A) == [i \in 1..3 |-> [j \in 1..3 |-> A[j][i]]]

(***************************************************************************)
(* class AirbotPlayFIK: the class attributes.                              *)
(***************************************************************************)
bias == <<0, -27549, 27549, 15708, 0, 0>>
a1 == 1172
a3 == 2701
a4 == 2902
a6 == 2365
arm_joint_range ==
    << <<-30900, -29200,  -400, -29500, -18000, -29000>>,
       << 20400,   1200, 30900,  29500,  18000,  29000>> >>
joint_range_scale == [i \in 1..6 |-> arm_joint_range[2][i] - arm_joint_range[1][i]]
arm_rot_mat ==
    << <<   0, 0, One>>,
       <<   0, One, 0>>,
       <<-One, 0,   0>> >>

(***************************************************************************)
(* add_bias.                                                               *)
(***************************************************************************)
\* while a > np.pi: a -= 2 * np.pi
RECURSIVE WrapDown(_)
WrapDown(a) == IF a > PI THEN WrapDown(a - TwoPi) ELSE a

\* while a < -np.pi: a += 2 * np.pi
RECURSIVE WrapUp(_)
WrapUp(a) == IF a < -PI THEN WrapUp(a + TwoPi) ELSE a

add_bias(angle) ==
    [i \in 1..Len(angle) |-> WrapUp(WrapDown(angle[i] + bias[i]))]


(***************************************************************************)
(* move_joint6_2_joint5: the wrist centre of a target.                     *)
(***************************************************************************)
move_joint6_2_joint5(pos, ori) ==
    [i \in 1..3 |-> RDiv(-ori[i][3] * a6, One) + pos[i]]

(***************************************************************************)
(* The position part shared by inverseKin and j3_ik.                       *)
(***************************************************************************)
\* c3 is c3num / c3den
c3num(pos) ==
    pos[1] * pos[1] + pos[2] * pos[2] + (pos[3] - a1) * (pos[3] - a1)
        - a3 * a3 - a4 * a4

c3den == 2 * a3 * a4

\* the check with only c3 > 1
out_of_domain_above(pos) == c3num(pos) > c3den

\* if c3 > 1 or c3 < -1
out_of_domain(pos) == c3num(pos) > c3den \/ c3num(pos) < -c3den

\* c3 as a fixed-point number, for a position that passed the check
c3(pos) == RDiv(c3num(pos) * 100, c3den \div 100)

\* angle[1] from k1, k2, the planar radius r and the height z
shoulder_pitch(i1, k1, k2, r, z) ==
    arctan2(k1 * z - i1 * k2 * r, i1 * k1 * r + k2 * z)

\* angle[0], angle[1], angle[2] of the branch (i1, i2), given c3 = c and
\* rt = np.sqrt(1 - c3 ** 2)
arm_angles_of(pos, i1, i2, c, rt) ==
    << arctan2s(i1, pos[2], pos[1]),
       shoulder_pitch(i1, a3 + FMul(a4, c), FMul(a4, i2 * rt),
                      sqrt(pos[1] * pos[1] + pos[2] * pos[2]), pos[3] - a1),
       arctan2y(i2, rt, c) >>

root_of(pos, i1, i2, c) == arm_angles_of(pos, i1, i2, c, sqrt(One * One - c * c))

arm_angles(pos, i1, i2) == root_of(pos, i1, i2, c3(pos))

\* the matrix R from the cosines and sines of angle[0] and angle[1] + angle[2]
R_of(c0, s0, c12, s12) ==
    << <<FMul(c0, c12), 0 - FMul(c0, s12), s0>>,
       <<FMul(s0, c12), 0 - FMul(s0, s12), 0 - c0>>,
       <<s12,           c12,               0>> >>

\* the orientation the first three joints induce
R(angle) ==
    R_of(cos(angle[1]), sin(angle[1]),
         cos(angle[2] + angle[3]), sin(angle[2] + angle[3]))

\* angle[3], angle[4], angle[5] of the wrist branch i5 from ori1 = R.T @ ori
wrist_angles(ori1, i5) ==
    << arctan2s(i5, ori1[3][3], ori1[2][3]),
       arctan2y(i5, sqrt(ori1[3][3] * ori1[3][3] + ori1[2][3] * ori1[2][3]),
                ori1[1][3]),
       arctan2s(-i5, ori1[1][1], ori1[1][2]) >>

\* the (i1, i2, i5) iterations of the three nested loops, in their order
Branches ==
    << <<1, 1, 1>>,  <<1, 1, -1>>,  <<1, -1, 1>>,  <<1, -1, -1>>,
       <<-1, 1, 1>>, <<-1, 1, -1>>, <<-1, -1, 1>>, <<-1, -1, -1>> >>

\* the (i1, i2) iterations of j3_ik
Branches3 == << <<1, 1>>, <<1, -1>>, <<-1, 1>>, <<-1, -1>> >>

\* js of the wrist branch i5 once angle[0..2] = arm are set
wrist_candidate(arm, ori, i5) ==
    add_bias(arm \o wrist_angles(MatMul(Transpose(R(arm)), ori), i5))

\* js of one iteration of the innermost loop of inverseKin
candidate(pos, ori, b) == wrist_candidate(arm_angles(pos, b[1], b[2]), ori, b[3])

\* js of one iteration of the inner loop of j3_ik
candidate3(pos, b) == add_bias(arm_angles(pos, b[1], b[2]))

\* the filter with >= and <= in place of > and <
in_joint_range_closed(js) ==
    \A i \in 1..Len(js) :
        js[i] >= arm_joint_range[1][i] /\ js[i] <= arm_joint_range[2][i]

\* np.all((js > arm_joint_range[0]) * (js < arm_joint_range[1]))
in_joint_range(js) ==
    \A i \in 1..Len(js) :
        js[i] > arm_joint_range[1][i] /\ js[i] < arm_joint_range[2][i]

\* the check of the empty list left out
no_solution_never(ret) == FALSE

\* if len(ret) == 0
no_solution(ret) == Len(ret) = 0

\* one term of np.abs(ref_q - js) / self.joint_range_scale
joint_dist_term(ref_q, js, i) ==
    RDiv(Abs(ref_q[i] - js[i]) * One, joint_range_scale[i])

\* np.sum(np.abs(ref_q - js) / self.joint_range_scale)
joint_dist(ref_q, js) ==
    joint_dist_term(ref_q, js, 1) + joint_dist_term(ref_q, js, 2)
    + joint_dist_term(ref_q, js, 3) + joint_dist_term(ref_q, js, 4)
    + joint_dist_term(ref_q, js, 5) + joint_dist_term(ref_q, js, 6)

\* an argmin that keeps the last index of the least element
RECURSIVE ArgMinLastFrom(_, _, _)
ArgMinLastFrom(lst, best, k) ==
    IF k > Len(lst) THEN best
    ELSE ArgMinLastFrom(lst, IF lst[k] <= lst[best] THEN k ELSE best, k + 1)

argmin_last(lst) == ArgMinLastFrom(lst, 1, 2)

\* np.argmin: the first index of the least element of a non-empty list
RECURSIVE ArgMinFrom(_, _, _)
ArgMinFrom(lst, best, k) ==
    IF k > Len(lst) THEN best
    ELSE ArgMinFrom(lst, IF lst[k] < lst[best] THEN k ELSE best, k + 1)

argmin(lst) == ArgMinFrom(lst, 1, 2)

\* ref_q=None
None == <<>>

\* what a call leaves: kind is "list" (return ret), "one" (return q) or
\* "raise" (ValueError); line is the line of the raise; msg_pos and msg_ori are
\* the values formatted into the message (has_target: whether there are any);
\* cands is the local list ret when the call ends, idx the value of np.argmin
Outcome(kind, line, has_target, msg_pos, msg_ori, cands, idx) ==
    [kind |-> kind, line |-> line, has_target |-> has_target,
     msg_pos |-> msg_pos, msg_ori |-> msg_ori, cands |-> cands, idx |-> idx,
     q |-> IF kind = "one" /\ idx \in DOMAIN cands THEN cands[idx] ELSE <<>>]

(***************************************************************************)
(* inverseKin.                                                             *)
(***************************************************************************)
\* lines 77 to 87, ret being complete
inverseKin_end(pos, ori, ref_q, ret) ==
    IF no_solution(ret)
    THEN Outcome("raise", 78, TRUE, pos, ori, ret, 0)
    ELSE IF ref_q # None
    THEN Outcome("one", 0, FALSE, <<>>, <<>>, ret,
                 argmin([k \in 1..Len(ret) |-> joint_dist(ref_q, ret[k])]))
    ELSE Outcome("list", 0, FALSE, <<>>, <<>>, ret, 0)

\* lines 44 to 87, pos being the wrist centre; c3 does not depend on i1, so
\* the raise of line 51 happens in the first iteration, ret being empty
inverseKin_loops(pos, ori, ref_q) ==
    IF out_of_domain(pos)
    THEN Outcome("raise", 51, TRUE, pos, ori, <<>>, 0)
    ELSE inverseKin_end(pos, ori, ref_q,
             SelectSeq([k \in 1..8 |-> candidate(pos, ori, Branches[k])],
                       in_joint_range))

inverseKin(pos, ori, ref_q) ==
    inverseKin_loops(move_joint6_2_joint5(pos, ori), ori, ref_q)

(***************************************************************************)
(* j3_ik.                                                                  *)
(***************************************************************************)
\* a j3_ik that raises, as inverseKin does, when no branch is left
j3_ik_raising_end(ret) ==
    IF Len(ret) = 0
    THEN Outcome("raise", 116, FALSE, <<>>, <<>>, ret, 0)
    ELSE Outcome("list", 0, FALSE, <<>>, <<>>, ret, 0)

j3_ik_raising(pos) ==
    IF out_of_domain(pos)
    THEN Outcome("raise", 116, FALSE, <<>>, <<>>, <<>>, 0)
    ELSE j3_ik_raising_end(
             SelectSeq([k \in 1..4 |-> candidate3(pos, Branches3[k])],
                       in_joint_range))

j3_ik(pos) ==
    IF out_of_domain(pos)
    THEN Outcome("raise", 116, FALSE, <<>>, <<>>, <<>>, 0)
    ELSE Outcome("list", 0, FALSE, <<>>, <<>>,
                 SelectSeq([k \in 1..4 |-> candidate3(pos, Branches3[k])],
                           in_joint_range),
                 0)

(***************************************************************************)
(* forwardKin: pinocchio's forward kinematics of the arm's URDF, which is  *)
(* not part of the sources.  It is the 6R chain that inverseKin inverts:   *)
(* joint angles minus the bias, the first three joints placing the wrist   *)
(* centre and inducing R, the wrist rotating by Rx(t4) Rz(t5) C(t6), the   *)
(* end-effector a6 along the local z-axis from the wrist centre.           *)
(***************************************************************************)
Rot_x(c, s) == << <<One, 0, 0>>, <<0, c, 0 - s>>, <<0, s, c>> >>
Rot_z(c, s) == << <<c, 0 - s, 0>>, <<s, c, 0>>, <<0, 0, One>> >>
Rot_c(c, s) == << <<0, 0, One>>, <<s, c, 0>>, <<0 - c, s, 0>> >>
RotX(t) == Rot_x(cos(t), sin(t))
RotZ(t) == Rot_z(cos(t), sin(t))
RotC(t) == Rot_c(cos(t), sin(t))

\* the wrist centre from the planar radius rho and the height z
wrist_centre(t1, rho, z) == <<FMul(cos(t1), rho), FMul(sin(t1), rho), a1 + z>>

\* the pose of unbiased joint angles t
chain_pose(pw, rot) ==
    [translation |-> [i \in 1..3 |-> pw[i] + FMul(rot[i][3], a6)],
     rotation |-> rot]

chain(t) ==
    chain_pose(wrist_centre(t[1],
                            RDiv(a3 * cos(t[2]) + a4 * cos(t[2] + t[3]), One),
                            RDiv(a3 * sin(t[2]) + a4 * sin(t[2] + t[3]), One)),
               MatMul(R(<<t[1], t[2], t[3]>>),
                      MatMul(RotX(t[4]), MatMul(RotZ(t[5]), RotC(t[6])))))

\* pin.forwardKinematics(model, data, q); data.oMi[6]
forwardKinematics(q) == chain([i \in 1..6 |-> q[i] - bias[i]])

\* lines 36 to 39 of properFK: tmat as its rotation block and translation column
properFK_of(eoMi) ==
    [rotation |-> MatMul(eoMi.rotation, Transpose(arm_rot_mat)),
     translation |-> eoMi.translation]

properFK(q) == properFK_of(forwardKinematics(q))

properIK(pos, ori, ref_q) == inverseKin(pos, MatMul(ori, arm_rot_mat), ref_q)

(***************************************************************************)
(* The caller of one AirbotPlayFIK object: the state is the last call made *)
(* (op, arg) and what it left (out).                                       *)
(***************************************************************************)
VARIABLES
    op, arg, out,                       \* the caller of the kinematics
    pin_data, pc, tq, tmat,             \* threads sharing one object
    stm, reset_sig, sim_time, data_idx, running, event, executed
                                        \* the task sequencer

call_vars == <<op, arg, out>>
thread_vars == <<pin_data, pc, tq, tmat>>
seq_vars == <<stm, reset_sig, sim_time, data_idx, running, event, executed>>
vars == <<call_vars, thread_vars, seq_vars>>

\* the parts of the state a specification does not use
NoCalls == op = "none" /\ arg = <<>> /\ out = <<>>
NoThreads == pin_data = None /\ pc = None /\ tq = None /\ tmat = None
NoSequencer ==
    /\ stm = None /\ reset_sig = FALSE /\ sim_time = 0 /\ data_idx = 0
    /\ running = FALSE /\ event = "none" /\ executed = -1

\* the arguments of a call; the unused ones are None
Args(angle, pos, ori, ref_q, q) ==
    [angle |-> angle, pos |-> pos, ori |-> ori, ref_q |-> ref_q, q |-> q]

\* angle vectors given to add_bias: n equal entries of a multiple of pi/4
BiasInputs ==
    { [i \in 1..n |-> m * QuarterPi] :
        n \in {3, 6}, m \in (-8 * MaxTurns)..(8 * MaxTurns) }

\* positions at and around the outer reach boundary, |p - shoulder| = a3 + a4,
\* on the ray (0, 5, 12) / 13 from the shoulder point (0, 0, a1)
OuterRay ==
    { <<0, 5 * m, a1 + 12 * m>> :
        m \in ((a3 + a4) \div 13 - Near)..((a3 + a4) \div 13 + Near) }

\* positions at and around the inner reach boundary, |p - shoulder| = a4 - a3
InnerRay == { <<0, d, a1>> : d \in (a4 - a3 - Near)..(a4 - a3 + Near) }

\* a grid of positions around the shoulder point, 0.2 m apart
GridPoints ==
    { <<2000 * i, 2000 * j, a1 + 2000 * k>> : i, j, k \in (-Grid)..Grid }

\* positions across the upper limit of joint 0: at d = 0 the branches with
\* i1 = 1 have js[0] = arm_joint_range[1][0] exactly
LimitArc == { <<-2300, 4537 + d, 3422>> : d \in (-Near)..Near }

Positions == OuterRay \cup InnerRay \cup GridPoints \cup LimitArc

\* target orientations in the solver's convention
Orientations == { RotZ(0), RotZ(-HalfPi), arm_rot_mat }

\* the target whose wrist centre is w
TargetPos(w, ori) == [i \in 1..3 |-> w[i] + FMul(ori[i][3], a6)]

\* qq of the module's __main__ (lines 136 and 137)
qq0 == <<0, 0, 0, 0, 0, 0>>
qq  == <<0, -1660, 320, 0, 15708, 6522>>

References == { None, qq0, qq }

\* joint vectors inside the limits: qq and qq0 and steps away from them; the
\* second family keeps joint 4 at 0
JointSamples ==
    { [i \in 1..6 |-> qq[i] + k * <<1500, -2000, 2500, 3000, -2000, -3000>>[i]] :
        k \in 0..MaxSample }
    \cup
    { [i \in 1..6 |-> qq0[i] + k * <<1000, -3000, 3000, 4000, 0, 2000>>[i]] :
        k \in 0..MaxSample }

Init ==
    /\ op = "none"
    /\ arg = Args(None, None, None, None, None)
    /\ out = None
    /\ NoThreads
    /\ NoSequencer

\* The calls read nothing that an earlier call wrote, so a behaviour is one
\* call; properIK is also called on the pose properFK returned, with the joint
\* vector of that pose as reference (the round trip).
call_add_bias ==
    \E angle \in BiasInputs :
        /\ op = "none"
        /\ op' = "add_bias"
        /\ arg' = Args(angle, None, None, None, None)
        /\ out' = add_bias(angle)
        /\ UNCHANGED <<thread_vars, seq_vars>>

call_j3_ik ==
    \E pos \in Positions :
        /\ op = "none"
        /\ op' = "j3_ik"
        /\ arg' = Args(None, pos, None, None, None)
        /\ out' = j3_ik(pos)
        /\ UNCHANGED <<thread_vars, seq_vars>>

call_inverseKin ==
    \E w \in Positions, ori \in Orientations, ref_q \in References :
        /\ op = "none"
        /\ op' = "inverseKin"
        /\ arg' = Args(None, TargetPos(w, ori), ori, ref_q, None)
        /\ out' = inverseKin(TargetPos(w, ori), ori, ref_q)
        /\ UNCHANGED <<thread_vars, seq_vars>>

call_properFK ==
    \E q \in JointSamples :
        /\ op = "none"
        /\ op' = "properFK"
        /\ arg' = Args(None, None, None, None, q)
        /\ out' = properFK(q)
        /\ UNCHANGED <<thread_vars, seq_vars>>

call_properIK ==
    /\ op = "properFK"
    /\ op' = "properIK"
    /\ arg' = Args(None, out.translation, out.rotation, arg.q, arg.q)
    /\ out' = properIK(out.translation, out.rotation, arg.q)
    /\ UNCHANGED <<thread_vars, seq_vars>>

Next ==
    \/ call_add_bias
    \/ call_j3_ik
    \/ call_inverseKin
    \/ call_properFK
    \/ call_properIK

Spec == Init /\ [][Next]_vars

(***************************************************************************)
(* Threads calling properFK on one AirbotPlayFIK object.  __init__ creates *)
(* one pin_data, forwardKin writes it and returns data.oMi[6], a reference *)
(* into it, not a copy; the interpreter may switch threads between any two *)
(* of the steps below.                                                     *)
(***************************************************************************)
NThreads == 2

Threads == 1..NThreads

ThreadInputs == {qq0, qq}

Identity3 == << <<One, 0, 0>>, <<0, One, 0>>, <<0, 0, One>> >>

\* self.pin_data = self.pin_model.createData()
createData == [translation |-> <<0, 0, 0>>, rotation |-> Identity3]

\* tmat = np.eye(4); tmat[:3,:3] = eoMi.rotation @ self.arm_rot_mat.T
tmat_rotation(eoMi) ==
    [rotation |-> MatMul(eoMi.rotation, Transpose(arm_rot_mat)),
     translation |-> <<0, 0, 0>>]

\* tmat[:3,3] = eoMi.translation.T
tmat_translation(m, eoMi) == [m EXCEPT !.translation = eoMi.translation]

InitFK ==
    /\ NoCalls
    /\ NoSequencer
    /\ pin_data = createData
    /\ pc = [t \in Threads |-> "idle"]
    /\ tq = [t \in Threads |-> None]
    /\ tmat = [t \in Threads |-> None]

\* properFK(q) is entered and forwardKin runs pin.forwardKinematics
forwardKin_call ==
    \E t \in Threads, q \in ThreadInputs :
        /\ pc[t] = "idle"
        /\ pin_data' = forwardKinematics(q)
        /\ tq' = [tq EXCEPT ![t] = q]
        /\ pc' = [pc EXCEPT ![t] = "line 29"]
        /\ UNCHANGED <<tmat, call_vars, seq_vars>>

\* return self.pin_data.oMi[6]: eoMi is the shared entry itself
forwardKin_return ==
    \E t \in Threads :
        /\ pc[t] = "line 29"
        /\ pc' = [pc EXCEPT ![t] = "line 37"]
        /\ UNCHANGED <<pin_data, tq, tmat, call_vars, seq_vars>>

properFK_rotation ==
    \E t \in Threads :
        /\ pc[t] = "line 37"
        /\ tmat' = [tmat EXCEPT ![t] = tmat_rotation(pin_data)]
        /\ pc' = [pc EXCEPT ![t] = "line 38"]
        /\ UNCHANGED <<pin_data, tq, call_vars, seq_vars>>

properFK_translation ==
    \E t \in Threads :
        /\ pc[t] = "line 38"
        /\ tmat' = [tmat EXCEPT ![t] = tmat_translation(tmat[t], pin_data)]
        /\ pc' = [pc EXCEPT ![t] = "returned"]
        /\ UNCHANGED <<pin_data, tq, call_vars, seq_vars>>

NextFK ==
    \/ forwardKin_call
    \/ forwardKin_return
    \/ properFK_rotation
    \/ properFK_translation

SpecFK == InitFK /\ [][NextFK]_vars

(***************************************************************************)
(* The control loop of plate_coffeecup.py, one action per kind of          *)
(* iteration.  SimpleStateMachine and the simulation node are imported     *)
(* from discoverse: stm is the state machine's state_idx and new_state,    *)
(* sim_time the simulated time in control steps since the last reset of    *)
(* the environment, whose reset raises reset_sig.  Whether an arm target   *)
(* can be solved and whether the motion is done are the environment's.     *)
(***************************************************************************)
MaxTicks == 18
DataSetSize == 2

max_state_cnt == 16

\* the states whose action calls setArmEndTarget
ArmTargetStates == {1, 2, 5, 8, 9, 10, 12, 13, 15}

\* SimpleStateMachine
stm_reset(m) == [state_idx |-> 0, new_state |-> TRUE]
stm_trigger(m) == [m EXCEPT !.new_state = FALSE]
stm_next(m) ==
    IF m.state_idx < max_state_cnt
    THEN [state_idx |-> m.state_idx + 1, new_state |-> TRUE]
    ELSE m

\* sim_node.reset() and sim_node.step(action), on reset_sig and the time
sim_reset(sim) == [reset_sig |-> TRUE, time |-> 0]
sim_step(sim) ==
    [sim EXCEPT !.time = IF sim.time > MaxTicks THEN sim.time ELSE sim.time + 1]

\* an except clause that does nothing
except_pass(sim) == sim

\* except ValueError as ve: sim_node.reset()
except_ValueError(sim) == sim_reset(sim)

\* if sim_node.reset_sig: ... stm.reset()
loop_top(m, sig) == IF sig THEN stm_reset(m) ELSE m

\* if sim_node.checkActionDone(): stm.next()
action_done(m, done) == IF done THEN stm_next(m) ELSE m

\* sim_node.reset_sig = False at the top of the loop
sim_top == [reset_sig |-> FALSE, time |-> sim_time]

\* lines 219 to 244: the step of the simulation and the end of an episode,
\* m and sim being what the try statement left
loop_tail(m, sim) ==
    /\ stm' = m
    /\ IF m.state_idx >= max_state_cnt
       THEN /\ data_idx' = data_idx + 1
            /\ IF data_idx + 1 >= DataSetSize
               THEN /\ running' = FALSE
                    /\ reset_sig' = sim.reset_sig
                    /\ sim_time' = sim_step(sim).time
               ELSE /\ running' = TRUE
                    /\ reset_sig' = sim_reset(sim_step(sim)).reset_sig
                    /\ sim_time' = sim_reset(sim_step(sim)).time
       ELSE /\ data_idx' = data_idx
            /\ running' = TRUE
            /\ reset_sig' = sim.reset_sig
            /\ sim_time' = sim_step(sim).time
    /\ UNCHANGED <<call_vars, thread_vars>>

\* obs = sim_node.reset() before the loop
InitSeq ==
    /\ NoCalls
    /\ NoThreads
    /\ stm = [state_idx |-> 0, new_state |-> TRUE]
    /\ reset_sig = TRUE
    /\ sim_time = 0
    /\ data_idx = 0
    /\ running = TRUE
    /\ event = "start"
    /\ executed = -1

\* stm.trigger() holds and the action of the state is carried out
tick_state ==
    \E done \in BOOLEAN :
        /\ running
        /\ loop_top(stm, reset_sig).new_state
        /\ event' = "state"
        /\ executed' = loop_top(stm, reset_sig).state_idx
        /\ loop_tail(action_done(stm_trigger(loop_top(stm, reset_sig)), done),
                     sim_top)

\* stm.trigger() holds and setArmEndTarget raises ValueError
tick_solve_failure ==
    /\ running
    /\ loop_top(stm, reset_sig).new_state
    /\ loop_top(stm, reset_sig).state_idx \in ArmTargetStates
    /\ event' = "solve_failure"
    /\ executed' = loop_top(stm, reset_sig).state_idx
    /\ loop_tail(stm_trigger(loop_top(stm, reset_sig)),
                 except_ValueError(sim_top))

\* elif sim_node.mj_data.time > max_time: raise ValueError("Time out")
tick_time_out ==
    /\ running
    /\ ~loop_top(stm, reset_sig).new_state
    /\ sim_time > MaxTicks
    /\ event' = "time_out"
    /\ executed' = -1
    /\ loop_tail(loop_top(stm, reset_sig), except_ValueError(sim_top))

\* else: stm.update()
tick_update ==
    \E done \in BOOLEAN :
        /\ running
        /\ ~loop_top(stm, reset_sig).new_state
        /\ ~(sim_time > MaxTicks)
        /\ event' = "update"
        /\ executed' = -1
        /\ loop_tail(action_done(loop_top(stm, reset_sig), done), sim_top)

NextSeq ==
    \/ tick_state
    \/ tick_solve_failure
    \/ tick_time_out
    \/ tick_update

SpecSeq == InitSeq /\ [][NextSeq]_vars

(***************************************************************************)
(* Properties of the calls.                                                *)
(***************************************************************************)
IsIK == op \in {"inverseKin", "properIK"}

\* the orientation inverseKin receives
PassedOri == IF op = "properIK" THEN MatMul(arg.ori, arm_rot_mat) ELSE arg.ori

\* the wrist centre of the target of the call
WristCentre == move_joint6_2_joint5(arg.pos, PassedOri)

\* the squared distance of a point from the shoulder, at height a1 on the axis
ShoulderDist2(w) == w[1] * w[1] + w[2] * w[2] + (w[3] - a1) * (w[3] - a1)

OutOfReach(w) ==
    \/ ShoulderDist2(w) > (a3 + a4) * (a3 + a4)
    \/ ShoulderDist2(w) < (a4 - a3) * (a4 - a3)

OnReachBoundary(w) ==
    \/ ShoulderDist2(w) = (a3 + a4) * (a3 + a4)
    \/ ShoulderDist2(w) = (a4 - a3) * (a4 - a3)

StrictlyInside(js) ==
    \A i \in 1..Len(js) :
        arm_joint_range[1][i] < js[i] /\ js[i] < arm_joint_range[2][i]

\* 1e-2 rad
Tol == One \div 100

\* C1: for q strictly inside the joint limits, properIK on the pose
\* properFK(q) returns, with q as reference, gives q back within Tol in every
\* joint.
C1_RoundTrip ==
    op = "properIK" /\ StrictlyInside(arg.q) =>
        /\ out.kind = "one"
        /\ \A i \in 1..6 : Abs(out.q[i] - arg.q[i]) <= Tol

\* the round trip away from the wrist singularity (joint 5 not 0)
RoundTripRegular ==
    op = "properIK" /\ StrictlyInside(arg.q) /\ arg.q[5] # 0 =>
        /\ out.kind = "one"
        /\ \A i \in 1..6 : Abs(out.q[i] - arg.q[i]) <= Tol

\* C2: every joint vector inverseKin or j3_ik returns has each component
\* strictly between its lower and its upper limit; a candidate with a
\* component on or beyond a limit is not returned.
C2_LimitCompliance ==
    /\ (IsIK \/ op = "j3_ik") /\ out.kind = "list" =>
           \A k \in 1..Len(out.cands) :
               /\ Len(out.cands[k]) = (IF op = "j3_ik" THEN 3 ELSE 6)
               /\ StrictlyInside(out.cands[k])
    /\ IsIK /\ out.kind = "one" => Len(out.q) = 6 /\ StrictlyInside(out.q)

\* j3_ik returned some branches and left out one having a component equal to
\* its limit
C2_Witness ==
    /\ op = "j3_ik" /\ out.kind = "list" /\ Len(out.cands) >= 1
    /\ \E k \in 1..4 :
           /\ \E i \in 1..3 :
                  candidate3(arg.pos, Branches3[k])[i] \in
                      {arm_joint_range[1][i], arm_joint_range[2][i]}
           /\ \A j \in 1..Len(out.cands) :
                  out.cands[j] # candidate3(arg.pos, Branches3[k])

\* C3: inverseKin raises the domain error of line 51 exactly when the wrist
\* centre is farther from the shoulder than a3 + a4 or nearer than a4 - a3
\* (c3 > 1 or c3 < -1), and then no candidate has been collected.
C3_DomainError ==
    IsIK =>
        /\ OutOfReach(WristCentre) <=> (out.kind = "raise" /\ out.line = 51)
        /\ out.kind = "raise" /\ out.line = 51 => out.cands = <<>>

\* a target nearer to the shoulder than a4 - a3
C3_Witness ==
    /\ IsIK /\ out.kind = "raise" /\ out.line = 51
    /\ ShoulderDist2(WristCentre) < (a4 - a3) * (a4 - a3)

\* C4: when every candidate is eliminated inverseKin raises (line 78); a
\* returned list has 1 to 8 elements, and the selection is made on a list
\* that is not empty.
C4_NoEmptyResult ==
    IsIK =>
        /\ out.kind = "list" => Len(out.cands) \in 1..8
        /\ out.kind = "one" =>
               Len(out.cands) \in 1..8 /\ out.idx \in 1..Len(out.cands)
        /\ ( /\ ~OutOfReach(WristCentre)
             /\ \A k \in 1..8 :
                    ~StrictlyInside(candidate(WristCentre, PassedOri,
                                              Branches[k])) )
               <=> (out.kind = "raise" /\ out.line = 78)

\* a reachable target all of whose candidates are eliminated
C4_Witness ==
    IsIK /\ out.kind = "raise" /\ out.line = 78 /\ out.cands = <<>>

\* the sum over the joints of |ref - js| / (upper limit - lower limit)
NormalizedDistance(ref, js) ==
    LET term(i) == RDiv(Abs(ref[i] - js[i]) * One,
                        arm_joint_range[2][i] - arm_joint_range[1][i])
    IN  term(1) + term(2) + term(3) + term(4) + term(5) + term(6)

\* C5: with a reference, the vector returned is the candidate of least
\* normalized distance to the reference, the earliest one among equals.
C5_Selector ==
    IsIK /\ out.kind = "one" =>
        /\ out.idx \in 1..Len(out.cands)
        /\ out.q = out.cands[out.idx]
        /\ \A k \in 1..Len(out.cands) :
               /\ NormalizedDistance(arg.ref_q, out.q)
                      <= NormalizedDistance(arg.ref_q, out.cands[k])
               /\ k < out.idx =>
                      NormalizedDistance(arg.ref_q, out.q)
                          < NormalizedDistance(arg.ref_q, out.cands[k])

\* the nearest candidate is not the first, and another one is at the same
\* least distance later in the list
C5_Witness ==
    /\ IsIK /\ out.kind = "one" /\ out.idx > 1
    /\ \E k \in 1..Len(out.cands) :
           /\ k > out.idx
           /\ NormalizedDistance(arg.ref_q, out.cands[k])
                  = NormalizedDistance(arg.ref_q, out.q)

\* C7: a failure carries the target position, and for inverseKin the
\* orientation, exactly as the caller passed them.
C7_ErrorCarriesTarget ==
    (IsIK \/ op = "j3_ik") /\ out.kind = "raise" =>
        /\ out.has_target
        /\ out.msg_pos = arg.pos
        /\ IsIK => out.msg_ori = PassedOri

\* C9: at c3 = 1 or c3 = -1 a single elbow branch is enumerated per
\* shoulder-yaw branch: at most 4 candidates for inverseKin, 2 for j3_ik.
C9_SingleElbowBranch ==
    /\ IsIK /\ OnReachBoundary(WristCentre) => Len(out.cands) <= 4
    /\ op = "j3_ik" /\ OnReachBoundary(arg.pos) => Len(out.cands) <= 2

\* C10: add_bias returns a new list of the same length, each element being
\* the input plus its bias brought into (-pi, pi] by whole turns.
C10_BiasAndWrap ==
    op = "add_bias" =>
        /\ Len(out) = Len(arg.angle)
        /\ \A i \in 1..Len(out) :
               /\ (out[i] - (arg.angle[i] + bias[i])) % TwoPi = 0
               /\ -PI < out[i] /\ out[i] <= PI

\* the same with the interval closed at both ends
BiasAndWrapClosed ==
    op = "add_bias" =>
        /\ Len(out) = Len(arg.angle)
        /\ \A i \in 1..Len(out) :
               /\ (out[i] - (arg.angle[i] + bias[i])) % TwoPi = 0
               /\ -PI <= out[i] /\ out[i] <= PI

(***************************************************************************)
(* Properties of the threads.                                              *)
(***************************************************************************)
\* C6: threads calling properFK and forwardKin on one object without a lock
\* each get the result of the call run alone: a returned tmat is the pose of
\* the caller's own q, and the pose a thread got from forwardKin stays the
\* pose of its q.
C6_ThreadSafe ==
    \A t \in Threads :
        /\ pc[t] = "returned" => tmat[t] = properFK(tq[t])
        /\ pc[t] \in {"line 37", "line 38"} =>
               pin_data = forwardKinematics(tq[t])

(***************************************************************************)
(* Properties of the control loop.                                         *)
(***************************************************************************)
Failed(e) == e \in {"solve_failure", "time_out"}

\* C8: an iteration in which a ValueError is raised, by a solve or by the
\* time-out, leaves the loop running with the environment reset (reset_sig
\* raised), the state not advanced and data_idx as it was; the iteration
\* after it carries out the action of state 0 and nothing else.
C8_Recovery ==
    [][ /\ Failed(event') =>
               /\ running' /\ reset_sig' /\ sim_time' <= 1
               /\ data_idx' = data_idx
               /\ stm'.state_idx < max_state_cnt
               /\ executed' # -1 => stm'.state_idx = executed'
        /\ Failed(event) =>
               /\ event' = "state" /\ executed' = 0
               /\ executed' \notin ArmTargetStates ]_vars

\* a solve failed in an episode after the first one was recorded
C8_Witness ==
    /\ event = "solve_failure" /\ executed > 0 /\ data_idx > 0
    /\ running /\ reset_sig

(***************************************************************************)
(* Properties of j3_ik.                                                    *)
(***************************************************************************)
\* js of the branch (i1, i2) of the position solve, and the list it adds
BranchVector(pos, i1, i2) == add_bias(arm_angles(pos, i1, i2))

Kept(js) == IF StrictlyInside(js) THEN <<js>> ELSE <<>>

\* the vectors of the four branches that are strictly inside the limits of
\* joints 0..2, in the order (+1,+1), (+1,-1), (-1,+1), (-1,-1)
KeptBranches(pos) ==
    Kept(BranchVector(pos, 1, 1)) \o Kept(BranchVector(pos, 1, -1))
        \o Kept(BranchVector(pos, -1, 1)) \o Kept(BranchVector(pos, -1, -1))

\* C11: j3_ik raises the domain error exactly when c3 is outside [-1, 1];
\* otherwise it returns, without any error, the 0 to 4 three-joint vectors of
\* the branches (+1,+1), (+1,-1), (-1,+1), (-1,-1), in that order, that are
\* strictly inside the limits: an empty list when all are eliminated.
C11_ReducedSolve ==
    op = "j3_ik" =>
        /\ OutOfReach(arg.pos) <=> (out.kind = "raise" /\ out.line = 116)
        /\ ~OutOfReach(arg.pos) =>
               /\ out.kind = "list"
               /\ Len(out.cands) \in 0..4
               /\ out.cands = KeptBranches(arg.pos)

\* a position within reach all four branches of which are eliminated: the
\* empty list is returned
C11_Witness ==
    /\ op = "j3_ik" /\ ~OutOfReach(arg.pos)
    /\ KeptBranches(arg.pos) = <<>>
    /\ out.kind = "list" /\ out.cands = <<>>

\* j3_ik returned two different vectors, one of each shoulder-yaw branch
C11_OrderSeen ==
    /\ op = "j3_ik" /\ out.kind = "list" /\ Len(out.cands) >= 2
    /\ out.cands[1] = BranchVector(arg.pos, 1, 1)
    /\ out.cands[Len(out.cands)] = BranchVector(arg.pos, -1, -1)
    /\ out.cands[1] # out.cands[Len(out.cands)]

============================================================================
